---- MODULE Spec2Model ----
(***************************************************************************)
(* The data model of app/models.py: the five tables (users, experts,       *)
(* sales, operational_costs, financial_reports) with their column          *)
(* constraints, and the Create/Update transfer schemas with their field    *)
(* constraints.  The request handlers that apply a payload to the tables   *)
(* and the storage engine that enforces the declared constraints are not   *)
(* part of models.py; they are modelled from the specification and use the *)
(* declarations of models.py for every check they make.                    *)
(*                                                                         *)
(* Representation.  A Decimal is an integer number of thousandths, so that *)
(* a value with three decimal places can be told from one with two.  An    *)
(* Optional value is Null (the empty set) or Some(v) (a singleton).  A     *)
(* payload is a record whose domain is the set of fields the caller        *)
(* supplied.  An email is a sequence of one-character strings.             *)
(***************************************************************************)
EXTENDS Integers, Sequences, FiniteSets, TLC

VARIABLES users, experts, sales, costs, reports, nextId, now, result, last

vars == <<users, experts, sales, costs, reports, nextId, now, result, last>>
tables == <<users, experts, sales, costs, reports, nextId>>

\* ------------------------------------------------------------- bounds
MaxUsers == 2
MaxExperts == 2
MaxSales == 1
MaxCosts == 1
MaxReports == 1
MaxTime == 1

\* ------------------------------------------------------------ helpers
Null == {}
Some(v) == {v}
Unwrap(o) == CHOOSE v \in o : TRUE

Dec(units, thousandths) == units * 1000 + thousandths
Abs(n) == IF n < 0 THEN -n ELSE n

RECURSIVE Pow10(_)
Pow10(n) == IF n = 0 THEN 1 ELSE 10 * Pow10(n - 1)

Restrict(raw, F) == [f \in (DOMAIN raw) \cap F |-> raw[f]]
Overlay(row, p) == [f \in DOMAIN row |-> IF f \in DOMAIN p THEN p[f] ELSE row[f]]
WithDefaults(p, d) ==
    [f \in (DOMAIN p) \cup (DOMAIN d) |-> IF f \in DOMAIN p THEN p[f] ELSE d[f]]

Ids(table) == {table[i].id : i \in 1..Len(table)}
RowIndex(table, id) == CHOOSE i \in 1..Len(table) : table[i].id = id
RowOf(table, id) == table[RowIndex(table, id)]
RemoveRow(table, id) == SelectSeq(table, LAMBDA r : r.id # id)

\* ------------------------------------------------------------- enums
UserRole == {"admin", "manager", "expert"}
ExpertStatus == {"active", "inactive", "pending", "suspended"}
CostCategory == {"marketing", "operations", "technology", "support", "other"}
TransactionType == {"sale", "refund", "adjustment"}

\* ------------------------------------------------- field constraints
Lower == {"a","b","c","d","e","f","g","h","i","j","k","l","m",
          "n","o","p","q","r","s","t","u","v","w","x","y","z"}
Upper == {"A","B","C","D","E","F","G","H","I","J","K","L","M",
          "N","O","P","Q","R","S","T","U","V","W","X","Y","Z"}
Digit == {"0","1","2","3","4","5","6","7","8","9"}
LocalChars == Lower \cup Upper \cup Digit \cup {"_", ".", "+", "-"}
DomainChars == Lower \cup Upper \cup Digit \cup {"-"}
TailChars == Lower \cup Upper \cup Digit \cup {"-", "."}

\* ^[a-zA-Z0-9_.+-]+@[a-zA-Z0-9-]+\.[a-zA-Z0-9-.]+$
EmailRegexMatch(s) ==
    \E p \in 1..Len(s), q \in 1..Len(s) :
        /\ 1 < p /\ p + 1 < q /\ q < Len(s)
        /\ s[p] = "@" /\ s[q] = "."
        /\ \A i \in 1..(p - 1) : s[i] \in LocalChars
        /\ \A i \in (p + 1)..(q - 1) : s[i] \in DomainChars
        /\ \A i \in (q + 1)..Len(s) : s[i] \in TailChars

MaxLenOK(s, n) == Len(s) <= n
OptMaxLenOK(o, n) == \A s \in o : Len(s) <= n

\* pydantic's max_digits / decimal_places: at most decimal_places decimals
\* and at most max_digits - decimal_places digits before the point.
RECURSIVE NumDigits(_)
NumDigits(n) == IF n < 10 THEN 1 ELSE 1 + NumDigits(n \div 10)

WholeDigits(d) ==
    LET w == Abs(d) \div 1000 IN IF w = 0 THEN 0 ELSE NumDigits(w)

DecimalOK(d, max_digits, decimal_places) ==
    /\ decimal_places <= 3
    /\ d % Pow10(3 - decimal_places) = 0
    /\ WholeDigits(d) <= max_digits - decimal_places

\* A NUMERIC(precision, scale) column keeps `scale` decimals (half away
\* from zero).
NumericColumn(d, scale) ==
    LET q == Pow10(3 - scale)
        m == Abs(d)
        r == ((m + (q \div 2)) \div q) * q
    IN  IF d < 0 THEN -r ELSE r

\* The integer nearest to n / d (d > 0), ties to the even one.
RoundHalfEven(n, d) ==
    LET m == Abs(n)
        lo == m \div d
        rem == m - lo * d
        up == IF 2 * rem > d THEN TRUE
              ELSE IF 2 * rem < d THEN FALSE
              ELSE (lo % 2) = 1
        r == IF up THEN lo + 1 ELSE lo
    IN  IF n < 0 THEN -r ELSE r

\* Decimal.quantize to `places` decimals, ROUND_HALF_EVEN.
Quantize(d, places) == RoundHalfEven(d, Pow10(3 - places)) * Pow10(3 - places)

\* ------------------------------------------------------------ outcome
Outcome(kind, op, input) ==
    /\ result' = kind
    /\ last' = [op |-> op, input |-> input]

Rejected(kind, op, input) ==
    /\ Outcome(kind, op, input)
    /\ UNCHANGED tables

\* A column declared without Optional is NOT NULL: a patch that names it
\* with an explicit null cannot be stored.
NullViolation(p, nullable) == \E f \in DOMAIN p : f \notin nullable /\ p[f] = Null

\* Only the fields the caller set are applied (partial patch); a NOT NULL
\* column takes the value, a nullable column takes the optional as it is.
ApplyPatch(row, p, nullable) ==
    [f \in DOMAIN row |->
        IF f \in DOMAIN p
        THEN (IF f \in nullable THEN p[f] ELSE Unwrap(p[f]))
        ELSE row[f]]

\* =============================================================== users
UserColumns ==
    {"id", "email", "password_hash", "name", "role", "is_active",
     "permissions", "created_at", "updated_at"}
UserNullable == {}

UserCreateFields == {"email", "password", "name", "role", "permissions"}
UserCreateRequired == {"email", "password", "name"}
UserCreateDefaults == [role |-> "expert", permissions |-> {}]

EmailMaxLen == 255
PasswordMinLen == 8
PasswordMaxLen == 100
NameMaxLen == 100

\* The email field checked for its length alone, the pattern left out.
UserCreateEmailOK_NoPattern(e) == MaxLenOK(e, EmailMaxLen)

UserCreateEmailOK(e) == MaxLenOK(e, EmailMaxLen) /\ EmailRegexMatch(e)

UserCreateParse(raw) ==
    WithDefaults(Restrict(raw, UserCreateFields), UserCreateDefaults)

UserCreateValid(raw) ==
    /\ UserCreateRequired \subseteq DOMAIN raw
    /\ LET p == UserCreateParse(raw)
       IN  /\ UserCreateEmailOK(p.email)
           /\ Len(p.password) >= PasswordMinLen
           /\ MaxLenOK(p.password, PasswordMaxLen)
           /\ MaxLenOK(p.name, NameMaxLen)
           /\ p.role \in UserRole

UserUpdateFields == {"name", "role", "is_active", "permissions"}

UserUpdateParse(raw) == Restrict(raw, UserUpdateFields)

UserUpdateValid(raw) ==
    LET p == UserUpdateParse(raw)
    IN  /\ ("name" \in DOMAIN p => OptMaxLenOK(p.name, NameMaxLen))
        /\ ("role" \in DOMAIN p => p.role \subseteq UserRole)

\* The email column without its unique index.
UserUniqueOK_NoIndex(table, row) == TRUE

\* users.email is UNIQUE.
UserUniqueOK(table, row) ==
    \A i \in 1..Len(table) : table[i].email # row.email

HashPassword(pw) == <<"hash", pw>>

NewUser(p, id, t) ==
    Overlay([id |-> id, email |-> p.email,
             password_hash |-> HashPassword(p.password), name |-> p.name,
             role |-> p.role, is_active |-> TRUE,
             permissions |-> p.permissions,
             created_at |-> t, updated_at |-> t],
            Restrict(p, UserColumns))

CreateUser(raws) ==
    \E raw \in raws :
        LET in == [raw |-> raw]
            p == UserCreateParse(raw)
            row == NewUser(p, nextId.users, now)
        IN  /\ nextId.users <= MaxUsers
            /\ IF ~UserCreateValid(raw)
               THEN Rejected("ValidationError", "CreateUser", in)
               ELSE IF ~UserUniqueOK(users, row)
               THEN Rejected("UniquenessConflict", "CreateUser", in)
               ELSE /\ users' = Append(users, row)
                    /\ nextId' = [nextId EXCEPT !.users = @ + 1]
                    /\ Outcome("ok", "CreateUser", in)
                    /\ UNCHANGED <<experts, sales, costs, reports>>
            /\ UNCHANGED now

UpdateUser(ids, raws) ==
    \E id \in ids, raw \in raws :
        LET in == [id |-> id, raw |-> raw]
            p == UserUpdateParse(raw)
        IN  /\ IF ~UserUpdateValid(raw)
               THEN Rejected("ValidationError", "UpdateUser", in)
               ELSE IF id \notin Ids(users)
               THEN Rejected("NotFoundError", "UpdateUser", in)
               ELSE IF NullViolation(p, UserNullable)
               THEN Rejected("ValidationError", "UpdateUser", in)
               ELSE /\ users' = [users EXCEPT ![RowIndex(users, id)] =
                            [ApplyPatch(@, p, UserNullable)
                                EXCEPT !.updated_at = now]]
                    /\ Outcome("ok", "UpdateUser", in)
                    /\ UNCHANGED <<experts, sales, costs, reports, nextId>>
            /\ UNCHANGED now

\* ============================================================= experts
ExpertColumns ==
    {"id", "business_name", "expert_name", "email", "phone", "status",
     "partnership_start_date", "revenue_split_percentage",
     "business_description", "website", "social_media", "subdomain",
     "branding_config", "owner_id", "created_by_id", "created_at",
     "updated_at"}
ExpertNullable ==
    {"phone", "business_description", "website", "subdomain", "owner_id"}

ExpertCreateFields ==
    {"business_name", "expert_name", "email", "phone",
     "business_description", "website", "revenue_split_percentage",
     "subdomain"}
ExpertCreateRequired == {"business_name", "expert_name", "email"}
ExpertCreateDefaults ==
    [phone |-> Null, business_description |-> Null, website |-> Null,
     revenue_split_percentage |-> Dec(50, 0), subdomain |-> Null]

BusinessNameMaxLen == 200
PhoneMaxLen == 20
DescriptionMaxLen == 1000
WebsiteMaxLen == 255
SubdomainMaxLen == 50
SplitMaxDigits == 5
SplitDecimalPlaces == 2

ExpertCreateEmailOK(e) == MaxLenOK(e, EmailMaxLen) /\ EmailRegexMatch(e)
ExpertCreateSplitOK(d) == DecimalOK(d, SplitMaxDigits, SplitDecimalPlaces)

ExpertCreateParse(raw) ==
    WithDefaults(Restrict(raw, ExpertCreateFields), ExpertCreateDefaults)

ExpertCreateValid(raw) ==
    /\ ExpertCreateRequired \subseteq DOMAIN raw
    /\ LET p == ExpertCreateParse(raw)
       IN  /\ MaxLenOK(p.business_name, BusinessNameMaxLen)
           /\ MaxLenOK(p.expert_name, NameMaxLen)
           /\ ExpertCreateEmailOK(p.email)
           /\ OptMaxLenOK(p.phone, PhoneMaxLen)
           /\ OptMaxLenOK(p.business_description, DescriptionMaxLen)
           /\ OptMaxLenOK(p.website, WebsiteMaxLen)
           /\ ExpertCreateSplitOK(p.revenue_split_percentage)
           /\ OptMaxLenOK(p.subdomain, SubdomainMaxLen)

ExpertUpdateFields ==
    {"business_name", "expert_name", "email", "phone", "status",
     "business_description", "website", "revenue_split_percentage",
     "branding_config"}

ExpertUpdateParse(raw) == Restrict(raw, ExpertUpdateFields)

ExpertUpdateEmailOK(o) == OptMaxLenOK(o, EmailMaxLen)
ExpertUpdateSplitOK(o) ==
    \A d \in o : DecimalOK(d, SplitMaxDigits, SplitDecimalPlaces)

ExpertUpdateValid(raw) ==
    LET p == ExpertUpdateParse(raw)
        has(f) == f \in DOMAIN p
    IN  /\ (has("business_name") => OptMaxLenOK(p.business_name, BusinessNameMaxLen))
        /\ (has("expert_name") => OptMaxLenOK(p.expert_name, NameMaxLen))
        /\ (has("email") => ExpertUpdateEmailOK(p.email))
        /\ (has("phone") => OptMaxLenOK(p.phone, PhoneMaxLen))
        /\ (has("status") => p.status \subseteq ExpertStatus)
        /\ (has("business_description") =>
                OptMaxLenOK(p.business_description, DescriptionMaxLen))
        /\ (has("website") => OptMaxLenOK(p.website, WebsiteMaxLen))
        /\ (has("revenue_split_percentage") =>
                ExpertUpdateSplitOK(p.revenue_split_percentage))

\* experts.subdomain is UNIQUE; SQL lets any number of rows hold NULL.
ExpertUniqueOK(table, row) ==
    \A i \in 1..Len(table) :
        row.subdomain = Null \/ table[i].subdomain # row.subdomain

\* experts.owner_id (nullable) and experts.created_by_id reference users.id.
ExpertForeignKeysOK(row) ==
    /\ row.owner_id \subseteq Ids(users)
    /\ row.created_by_id \in Ids(users)

\* revenue_split_percentage is a NUMERIC(5, 2) column.
ExpertSplitColumn(d) == NumericColumn(d, SplitDecimalPlaces)

NewExpert(p, actor, id, t) ==
    Overlay([id |-> id, business_name |-> p.business_name,
             expert_name |-> p.expert_name, email |-> p.email,
             phone |-> p.phone, status |-> "pending",
             partnership_start_date |-> t,
             revenue_split_percentage |->
                 ExpertSplitColumn(p.revenue_split_percentage),
             business_description |-> p.business_description,
             website |-> p.website, social_media |-> {},
             subdomain |-> p.subdomain, branding_config |-> {},
             owner_id |-> Null, created_by_id |-> actor,
             created_at |-> t, updated_at |-> t],
            Restrict(p, ExpertColumns \ {"revenue_split_percentage"}))

CreateExpert(actors, raws) ==
    \E actor \in actors, raw \in raws :
        LET in == [actor |-> actor, raw |-> raw]
            p == ExpertCreateParse(raw)
            row == NewExpert(p, actor, nextId.experts, now)
        IN  /\ nextId.experts <= MaxExperts
            /\ IF ~ExpertCreateValid(raw)
               THEN Rejected("ValidationError", "CreateExpert", in)
               ELSE IF ~ExpertUniqueOK(experts, row)
               THEN Rejected("UniquenessConflict", "CreateExpert", in)
               ELSE IF ~ExpertForeignKeysOK(row)
               THEN Rejected("ReferentialIntegrityError", "CreateExpert", in)
               ELSE /\ experts' = Append(experts, row)
                    /\ nextId' = [nextId EXCEPT !.experts = @ + 1]
                    /\ Outcome("ok", "CreateExpert", in)
                    /\ UNCHANGED <<users, sales, costs, reports>>
            /\ UNCHANGED now

ExpertPatched(row, p, t) ==
    LET q == ApplyPatch(row, p, ExpertNullable)
    IN  [q EXCEPT !.revenue_split_percentage = ExpertSplitColumn(@),
                  !.updated_at = t]

UpdateExpert(ids, raws) ==
    \E id \in ids, raw \in raws :
        LET in == [id |-> id, raw |-> raw]
            p == ExpertUpdateParse(raw)
        IN  /\ IF ~ExpertUpdateValid(raw)
               THEN Rejected("ValidationError", "UpdateExpert", in)
               ELSE IF id \notin Ids(experts)
               THEN Rejected("NotFoundError", "UpdateExpert", in)
               ELSE IF NullViolation(p, ExpertNullable)
               THEN Rejected("ValidationError", "UpdateExpert", in)
               ELSE /\ experts' = [experts EXCEPT ![RowIndex(experts, id)] =
                            ExpertPatched(@, p, now)]
                    /\ Outcome("ok", "UpdateExpert", in)
                    /\ UNCHANGED <<users, sales, costs, reports, nextId>>
            /\ UNCHANGED now

\* Writes experts.owner_id, the column behind Expert.owner and
\* User.expert_business.  The column carries a foreign key and no UNIQUE.
SetOwner(ids, owners) ==
    \E id \in ids, owner \in owners :
        LET in == [id |-> id, owner |-> owner]
        IN  /\ IF id \notin Ids(experts)
               THEN Rejected("NotFoundError", "SetOwner", in)
               ELSE LET row == [RowOf(experts, id) EXCEPT
                                    !.owner_id = owner, !.updated_at = now]
                    IN  IF ~ExpertForeignKeysOK(row)
                        THEN Rejected("ReferentialIntegrityError", "SetOwner", in)
                        ELSE /\ experts' = [experts EXCEPT
                                     ![RowIndex(experts, id)] = row]
                             /\ Outcome("ok", "SetOwner", in)
                             /\ UNCHANGED <<users, sales, costs, reports, nextId>>
            /\ UNCHANGED now

\* =============================================================== sales
SaleColumns ==
    {"id", "expert_id", "transaction_type", "gross_amount", "net_amount",
     "product_name", "product_category", "quantity", "customer_id",
     "customer_country", "sale_date", "created_at"}

SaleCreateFields ==
    {"expert_id", "transaction_type", "gross_amount", "net_amount",
     "product_name", "product_category", "quantity", "customer_id",
     "customer_country", "sale_date"}
SaleCreateRequired == {"expert_id", "gross_amount", "net_amount"}
SaleCreateDefaults ==
    [transaction_type |-> "sale", product_name |-> Null,
     product_category |-> Null, quantity |-> 1, customer_id |-> Null,
     customer_country |-> Null, sale_date |-> Null]

AmountMaxDigits == 12
AmountDecimalPlaces == 2
ProductNameMaxLen == 200
ProductCategoryMaxLen == 100
CustomerIdMaxLen == 100
CountryMaxLen == 3

SaleCreateParse(raw) ==
    WithDefaults(Restrict(raw, SaleCreateFields), SaleCreateDefaults)

SaleCreateValid(raw) ==
    /\ SaleCreateRequired \subseteq DOMAIN raw
    /\ LET p == SaleCreateParse(raw)
       IN  /\ p.transaction_type \in TransactionType
           /\ DecimalOK(p.gross_amount, AmountMaxDigits, AmountDecimalPlaces)
           /\ DecimalOK(p.net_amount, AmountMaxDigits, AmountDecimalPlaces)
           /\ OptMaxLenOK(p.product_name, ProductNameMaxLen)
           /\ OptMaxLenOK(p.product_category, ProductCategoryMaxLen)
           /\ OptMaxLenOK(p.customer_id, CustomerIdMaxLen)
           /\ OptMaxLenOK(p.customer_country, CountryMaxLen)

\* sales.expert_id references experts.id.
SaleForeignKeysOK(row) == row.expert_id \in Ids(experts)

AmountColumn(d) == NumericColumn(d, AmountDecimalPlaces)

NewSale(p, id, t) ==
    Overlay([id |-> id, expert_id |-> p.expert_id,
             transaction_type |-> p.transaction_type,
             gross_amount |-> AmountColumn(p.gross_amount),
             net_amount |-> AmountColumn(p.net_amount),
             product_name |-> p.product_name,
             product_category |-> p.product_category,
             quantity |-> p.quantity, customer_id |-> p.customer_id,
             customer_country |-> p.customer_country,
             sale_date |-> IF p.sale_date = Null THEN t ELSE Unwrap(p.sale_date),
             created_at |-> t],
            Restrict(p, SaleColumns \ {"gross_amount", "net_amount", "sale_date"}))

CreateSale(raws) ==
    \E raw \in raws :
        LET in == [raw |-> raw]
            p == SaleCreateParse(raw)
            row == NewSale(p, nextId.sales, now)
        IN  /\ nextId.sales <= MaxSales
            /\ IF ~SaleCreateValid(raw)
               THEN Rejected("ValidationError", "CreateSale", in)
               ELSE IF ~SaleForeignKeysOK(row)
               THEN Rejected("ReferentialIntegrityError", "CreateSale", in)
               ELSE /\ sales' = Append(sales, row)
                    /\ nextId' = [nextId EXCEPT !.sales = @ + 1]
                    /\ Outcome("ok", "CreateSale", in)
                    /\ UNCHANGED <<users, experts, costs, reports>>
            /\ UNCHANGED now

\* ==================================================== operational costs
CostColumns ==
    {"id", "expert_id", "created_by_id", "category", "description",
     "amount", "cost_date", "is_recurring", "recurring_frequency",
     "external_reference", "notes", "created_at", "updated_at"}
CostNullable == {"recurring_frequency", "external_reference", "notes"}

OperationalCostCreateFields ==
    {"expert_id", "category", "description", "amount", "cost_date",
     "is_recurring", "recurring_frequency", "external_reference", "notes"}
OperationalCostCreateRequired ==
    {"expert_id", "category", "description", "amount"}
OperationalCostCreateDefaults ==
    [cost_date |-> Null, is_recurring |-> FALSE,
     recurring_frequency |-> Null, external_reference |-> Null,
     notes |-> Null]

CostDescriptionMaxLen == 500
FrequencyMaxLen == 20
ReferenceMaxLen == 100
NotesMaxLen == 1000

OperationalCostCreateParse(raw) ==
    WithDefaults(Restrict(raw, OperationalCostCreateFields),
                 OperationalCostCreateDefaults)

OperationalCostCreateValid(raw) ==
    /\ OperationalCostCreateRequired \subseteq DOMAIN raw
    /\ LET p == OperationalCostCreateParse(raw)
       IN  /\ p.category \in CostCategory
           /\ MaxLenOK(p.description, CostDescriptionMaxLen)
           /\ DecimalOK(p.amount, AmountMaxDigits, AmountDecimalPlaces)
           /\ OptMaxLenOK(p.recurring_frequency, FrequencyMaxLen)
           /\ OptMaxLenOK(p.external_reference, ReferenceMaxLen)
           /\ OptMaxLenOK(p.notes, NotesMaxLen)

\* The patch schema declaring the row's id and created_at as well.
OperationalCostUpdateFields_WithManaged ==
    {"category", "description", "amount", "cost_date", "is_recurring",
     "recurring_frequency", "external_reference", "notes", "id", "created_at"}

OperationalCostUpdateFields ==
    {"category", "description", "amount", "cost_date", "is_recurring",
     "recurring_frequency", "external_reference", "notes"}

OperationalCostUpdateParse(raw) == Restrict(raw, OperationalCostUpdateFields)

\* The amount field without its max_digits / decimal_places.
OperationalCostUpdateAmountOK_Unscaled(o) == TRUE

OperationalCostUpdateAmountOK(o) ==
    \A d \in o : DecimalOK(d, AmountMaxDigits, AmountDecimalPlaces)

OperationalCostUpdateValid(raw) ==
    LET p == OperationalCostUpdateParse(raw)
        has(f) == f \in DOMAIN p
    IN  /\ (has("category") => p.category \subseteq CostCategory)
        /\ (has("description") => OptMaxLenOK(p.description, CostDescriptionMaxLen))
        /\ (has("amount") => OperationalCostUpdateAmountOK(p.amount))
        /\ (has("recurring_frequency") =>
                OptMaxLenOK(p.recurring_frequency, FrequencyMaxLen))
        /\ (has("external_reference") =>
                OptMaxLenOK(p.external_reference, ReferenceMaxLen))
        /\ (has("notes") => OptMaxLenOK(p.notes, NotesMaxLen))

\* created_by_id declared without its foreign key.
CostForeignKeysOK_ExpertOnly(row) == row.expert_id \in Ids(experts)

\* operational_costs.expert_id references experts.id and
\* operational_costs.created_by_id references users.id.
CostForeignKeysOK(row) ==
    /\ row.expert_id \in Ids(experts)
    /\ row.created_by_id \in Ids(users)

NewCost(p, actor, id, t) ==
    Overlay([id |-> id, expert_id |-> p.expert_id, created_by_id |-> actor,
             category |-> p.category, description |-> p.description,
             amount |-> AmountColumn(p.amount),
             cost_date |-> IF p.cost_date = Null THEN t ELSE Unwrap(p.cost_date),
             is_recurring |-> p.is_recurring,
             recurring_frequency |-> p.recurring_frequency,
             external_reference |-> p.external_reference,
             notes |-> p.notes, created_at |-> t, updated_at |-> t],
            Restrict(p, CostColumns \ {"amount", "cost_date"}))

CreateCost(actors, raws) ==
    \E actor \in actors, raw \in raws :
        LET in == [actor |-> actor, raw |-> raw]
            p == OperationalCostCreateParse(raw)
            row == NewCost(p, actor, nextId.costs, now)
        IN  /\ nextId.costs <= MaxCosts
            /\ IF ~OperationalCostCreateValid(raw)
               THEN Rejected("ValidationError", "CreateCost", in)
               ELSE IF ~CostForeignKeysOK(row)
               THEN Rejected("ReferentialIntegrityError", "CreateCost", in)
               ELSE /\ costs' = Append(costs, row)
                    /\ nextId' = [nextId EXCEPT !.costs = @ + 1]
                    /\ Outcome("ok", "CreateCost", in)
                    /\ UNCHANGED <<users, experts, sales, reports>>
            /\ UNCHANGED now

CostPatched(row, p, t) ==
    LET q == ApplyPatch(row, p, CostNullable)
    IN  [q EXCEPT !.amount = AmountColumn(@), !.updated_at = t]

UpdateCost(ids, raws) ==
    \E id \in ids, raw \in raws :
        LET in == [id |-> id, raw |-> raw]
            p == OperationalCostUpdateParse(raw)
        IN  /\ IF ~OperationalCostUpdateValid(raw)
               THEN Rejected("ValidationError", "UpdateCost", in)
               ELSE IF id \notin Ids(costs)
               THEN Rejected("NotFoundError", "UpdateCost", in)
               ELSE IF NullViolation(p, CostNullable)
               THEN Rejected("ValidationError", "UpdateCost", in)
               ELSE /\ costs' = [costs EXCEPT ![RowIndex(costs, id)] =
                            CostPatched(@, p, now)]
                    /\ Outcome("ok", "UpdateCost", in)
                    /\ UNCHANGED <<users, experts, sales, reports, nextId>>
            /\ UNCHANGED now

\* ==================================================== financial reports
ReportDecimalPlaces == 2

RECURSIVE SumField(_, _)
SumField(rows, f) ==
    IF rows = <<>> THEN 0 ELSE Head(rows)[f] + SumField(Tail(rows), f)

\* financial_reports.expert_id references experts.id.
ReportForeignKeysOK(row) == row.expert_id \in Ids(experts)

ReportColumn(d) == NumericColumn(d, ReportDecimalPlaces)

\* expert_share declared with decimal_places=0.
FinancialReportRow_WholeShare(r) ==
    [r EXCEPT !.gross_revenue = ReportColumn(@),
              !.total_costs = ReportColumn(@),
              !.net_profit = ReportColumn(@),
              !.og_share = ReportColumn(@),
              !.expert_share = NumericColumn(@, 0),
              !.average_sale_value = NumericColumn(@, AmountDecimalPlaces)]

\* The row as the table stores it: every Decimal column is NUMERIC(., 2).
FinancialReportRow(r) ==
    [r EXCEPT !.gross_revenue = ReportColumn(@),
              !.total_costs = ReportColumn(@),
              !.net_profit = ReportColumn(@),
              !.og_share = ReportColumn(@),
              !.expert_share = ReportColumn(@),
              !.average_sale_value = NumericColumn(@, AmountDecimalPlaces)]

\* The expert's share is revenue_split_percentage percent of the net
\* profit, to the cent; the operator's share is the rest of it.
\* (Both operands are stored with two decimals: the product is taken in
\* hundredths, where it fits the checker's integers.)
ExpertShare(net_profit, pct) ==
    LET cent == Pow10(3 - ReportDecimalPlaces)
    IN  RoundHalfEven((net_profit \div cent) * (pct \div cent),
                      Dec(100, 0) \div cent) * cent

ComputeReport(eid, kind, id, t) ==
    LET inPeriod(d) == 0 <= d /\ d <= t
        mine == SelectSeq(sales, LAMBDA s : s.expert_id = eid /\ inPeriod(s.sale_date))
        spent == SelectSeq(costs, LAMBDA c : c.expert_id = eid /\ inPeriod(c.cost_date))
        gross == SumField(mine, "net_amount")
        total == SumField(spent, "amount")
        net == gross - total
        pct == RowOf(experts, eid).revenue_split_percentage
        share == ExpertShare(net, pct)
        cats == {spent[i].category : i \in 1..Len(spent)}
    IN  [id |-> id, expert_id |-> eid, period_start |-> 0, period_end |-> t,
         report_type |-> kind, gross_revenue |-> gross, total_costs |-> total,
         net_profit |-> net, og_share |-> net - share, expert_share |-> share,
         total_sales_count |-> Len(mine),
         average_sale_value |->
             IF Len(mine) = 0 THEN 0
             ELSE RoundHalfEven(gross, Len(mine) * Pow10(3 - AmountDecimalPlaces))
                      * Pow10(3 - AmountDecimalPlaces),
         cost_breakdown |->
             {<<c, SumField(SelectSeq(spent, LAMBDA x : x.category = c), "amount")>>
                 : c \in cats},
         generated_at |-> t, is_finalized |-> FALSE]

GenerateReport(eids, kinds) ==
    \E eid \in eids, kind \in kinds :
        LET in == [expert_id |-> eid, report_type |-> kind]
        IN  /\ nextId.reports <= MaxReports
            /\ IF ~ReportForeignKeysOK([expert_id |-> eid])
               THEN Rejected("ReferentialIntegrityError", "GenerateReport", in)
               ELSE /\ reports' = Append(reports,
                            FinancialReportRow(
                                ComputeReport(eid, kind, nextId.reports, now)))
                    /\ nextId' = [nextId EXCEPT !.reports = @ + 1]
                    /\ Outcome("ok", "GenerateReport", in)
                    /\ UNCHANGED <<users, experts, sales, costs>>
            /\ UNCHANGED now

\* ============================================================= deletes
\* No foreign key of models.py declares ON DELETE, so a referenced row
\* cannot be deleted.  experts.owner_id is nullable: the ORM's delete of a
\* User clears it first, a plain DELETE is refused like the others.
UserReferenced(id) ==
    \/ \E i \in 1..Len(experts) : experts[i].created_by_id = id
    \/ \E i \in 1..Len(costs) : costs[i].created_by_id = id

UserOwns(id) == \E i \in 1..Len(experts) : experts[i].owner_id = Some(id)

DeleteUser(ids) ==
    \E id \in ids, viaOrm \in BOOLEAN :
        LET in == [id |-> id]
        IN  /\ IF id \notin Ids(users)
               THEN Rejected("NotFoundError", "DeleteUser", in)
               ELSE IF UserReferenced(id) \/ (UserOwns(id) /\ ~viaOrm)
               THEN Rejected("ReferentialIntegrityError", "DeleteUser", in)
               ELSE /\ users' = RemoveRow(users, id)
                    /\ experts' = [i \in 1..Len(experts) |->
                            IF experts[i].owner_id = Some(id)
                            THEN [experts[i] EXCEPT !.owner_id = Null]
                            ELSE experts[i]]
                    /\ Outcome("ok", "DeleteUser", in)
                    /\ UNCHANGED <<sales, costs, reports, nextId>>
            /\ UNCHANGED now

ExpertReferenced(id) ==
    \/ \E i \in 1..Len(sales) : sales[i].expert_id = id
    \/ \E i \in 1..Len(costs) : costs[i].expert_id = id
    \/ \E i \in 1..Len(reports) : reports[i].expert_id = id

DeleteExpert(ids) ==
    \E id \in ids :
        LET in == [id |-> id]
        IN  /\ IF id \notin Ids(experts)
               THEN Rejected("NotFoundError", "DeleteExpert", in)
               ELSE IF ExpertReferenced(id)
               THEN Rejected("ReferentialIntegrityError", "DeleteExpert", in)
               ELSE /\ experts' = RemoveRow(experts, id)
                    /\ Outcome("ok", "DeleteExpert", in)
                    /\ UNCHANGED <<users, sales, costs, reports, nextId>>
            /\ UNCHANGED now

\* datetime.utcnow() moves on between requests.
Tick ==
    /\ now < MaxTime
    /\ now' = now + 1
    /\ UNCHANGED <<tables, result, last>>

Init ==
    /\ users = <<>>
    /\ experts = <<>>
    /\ sales = <<>>
    /\ costs = <<>>
    /\ reports = <<>>
    /\ nextId = [users |-> 1, experts |-> 1, sales |-> 1, costs |-> 1, reports |-> 1]
    /\ now = 0
    /\ result = "ok"
    /\ last = [op |-> "Init", input |-> [raw |-> <<>>]]

\* ============================================================== inputs
EAna == <<"a", "n", "a", "@", "o", "g", ".", "i", "o">>
EBob == <<"b", "+", "1", "@", "x", "-", "y", ".", "c", "o", ".", "u", "k">>
ENoAt == <<"a", "n", "a", ".", "o", "g">>
ENoDot == <<"a", "n", "a", "@", "o", "g">>
EUnderscore == <<"a", "@", "o", "_", "g", ".", "i", "o">>

UserIdRange == 1..MaxUsers
ExpertIdRange == 1..MaxExperts
CostIdRange == 1..MaxCosts

Ana == [email |-> EAna, password |-> "correct-horse", name |-> "Ana"]
Bob == [email |-> EBob, password |-> "battery-staple", name |-> "Bob",
        role |-> "admin", permissions |-> {<<"reports", "read">>}]
Acme == [business_name |-> "Acme", expert_name |-> "Ana", email |-> EAna,
         subdomain |-> Some("acme")]
Bolt == [business_name |-> "Bolt", expert_name |-> "Bob", email |-> EBob,
         revenue_split_percentage |-> Dec(70, 0)]

\* ------------------------------------------- accounts: users and experts
AccountUserRaws ==
    {Ana, Bob,
     [Ana EXCEPT !.name = "Ann"],
     [Ana EXCEPT !.email = ENoDot],
     [Bob EXCEPT !.email = EUnderscore],
     [Bob EXCEPT !.password = "short"],
     [Bob EXCEPT !.role = "root"],
     [password |-> "correct-horse", name |-> "Nobody"]}

AccountExpertRaws ==
    {Acme, Bolt,
     [Acme EXCEPT !.business_name = "Acme Two"],
     [Acme EXCEPT !.email = ENoAt],
     [Bolt EXCEPT !.revenue_split_percentage = Dec(1000, 0)]}

NextAccounts ==
    \/ CreateUser(AccountUserRaws)
    \/ CreateExpert(UserIdRange, AccountExpertRaws)

SpecAccounts == Init /\ [][NextAccounts]_vars

\* ------------------------------------- profile: experts and their patches
ProfileExpertRaws ==
    {Acme, Bolt, [Bolt EXCEPT !.revenue_split_percentage = Dec(150, 0)]}

ProfileExpertPatches ==
    {[email |-> Some(ENoAt)],
     [email |-> Some(EBob), phone |-> Some("555-0100")],
     [revenue_split_percentage |-> Some(Dec(-5, 0))],
     [revenue_split_percentage |-> Some(Dec(62, 500)), status |-> Some("active")],
     [revenue_split_percentage |-> Some(Dec(62, 505))],
     [status |-> Some("retired")],
     [phone |-> Null, expert_name |-> Null]}

NextProfile ==
    \/ CreateUser({Ana})
    \/ CreateExpert(UserIdRange, ProfileExpertRaws)
    \/ UpdateExpert(ExpertIdRange, ProfileExpertPatches)

SpecProfile == Init /\ [][NextProfile]_vars

\* --------------------------------- ownership: owners, deletes, deactivation
OwnershipUserPatches ==
    {[is_active |-> Some(FALSE)],
     [is_active |-> Some(TRUE), role |-> Some("manager")],
     [role |-> Some("root")],
     [name |-> Null]}

OwnershipOwners == {Null} \cup {Some(u) : u \in UserIdRange}

NextOwnership ==
    \/ CreateUser({Ana, Bob})
    \/ UpdateUser(UserIdRange, OwnershipUserPatches)
    \/ DeleteUser(UserIdRange)
    \/ CreateExpert(UserIdRange, {Acme, Bolt})
    \/ SetOwner(ExpertIdRange, OwnershipOwners)
    \/ DeleteExpert(ExpertIdRange)

SpecOwnership == Init /\ [][NextOwnership]_vars

\* ------------------------------------------------ costs and their patches
Ads == [expert_id |-> 1, category |-> "marketing", description |-> "ads",
        amount |-> Dec(100, 0)]
Hosting == [expert_id |-> 1, category |-> "technology",
            description |-> "hosting", amount |-> Dec(19, 990),
            cost_date |-> Some(0), is_recurring |-> TRUE,
            recurring_frequency |-> Some("monthly"),
            external_reference |-> Some("INV-7"), notes |-> Some("renews")]

CostRaws ==
    {Ads, Hosting,
     [Ads EXCEPT !.expert_id = MaxExperts + 1],
     [Ads EXCEPT !.category = "travel"],
     [Ads EXCEPT !.amount = Dec(12, 345)]}

CostPatches ==
    {[amount |-> Some(Dec(250, 0))],
     [amount |-> Some(Dec(12, 345))],
     [amount |-> Null],
     [amount |-> Some(Dec(75, 500)), description |-> Some("ads, revised")],
     [notes |-> Null, is_recurring |-> Some(FALSE)],
     [description |-> Null],
     [category |-> Some("travel")]}

NextCosts ==
    \/ CreateUser({Ana})
    \/ CreateExpert({1}, {Acme})
    \/ CreateCost({1}, CostRaws)
    \/ UpdateCost(CostIdRange, CostPatches)
    \/ Tick

SpecCosts == Init /\ [][NextCosts]_vars

\* ------------------------------------------------- sales, costs, reports
Course == [expert_id |-> 1, gross_amount |-> Dec(1000, 0),
           net_amount |-> Dec(900, 0)]

ReportSaleRaws ==
    {Course,
     [Course EXCEPT !.expert_id = 2],
     [expert_id |-> 1, gross_amount |-> Dec(1000, 0),
      net_amount |-> Dec(900, 0), sale_date |-> Some(1)],
     [expert_id |-> 1, transaction_type |-> "refund",
      gross_amount |-> Dec(-50, -10), net_amount |-> Dec(-45, -10)],
     [expert_id |-> 1, gross_amount |-> Dec(1000, 0),
      net_amount |-> Dec(900, 0), customer_country |-> Some("BRAZIL")]}

ReportCostRaws == {Ads, [Ads EXCEPT !.expert_id = 2], Hosting}

NextReports ==
    \/ CreateUser({Ana})
    \/ CreateExpert({1}, {Acme, Bolt})
    \/ CreateSale(ReportSaleRaws)
    \/ CreateCost({1}, ReportCostRaws)
    \/ GenerateReport(ExpertIdRange, {"monthly"})

SpecReports == Init /\ [][NextReports]_vars

\* -------------------- every handler, payloads carrying server-managed fields
Managed == [id |-> 99, created_at |-> 7, updated_at |-> 7,
            og_share |-> Dec(1, 0), expert_share |-> Dec(1, 0)]
ManagedPatch == [f \in DOMAIN Managed |-> Some(Managed[f])]

NextAll ==
    \/ CreateUser({WithDefaults(Ana, Managed)})
    \/ UpdateUser(UserIdRange, {WithDefaults([name |-> Some("Ann")], ManagedPatch)})
    \/ DeleteUser(UserIdRange)
    \/ CreateExpert(UserIdRange, {WithDefaults(Acme, Managed)})
    \/ UpdateExpert(ExpertIdRange,
                    {WithDefaults([status |-> Some("active")], ManagedPatch)})
    \/ DeleteExpert(ExpertIdRange)
    \/ CreateSale({WithDefaults(Course, Managed)})
    \/ CreateCost(UserIdRange, {WithDefaults(Ads, Managed)})
    \/ UpdateCost(CostIdRange,
                  {WithDefaults([amount |-> Some(Dec(250, 0))], ManagedPatch)})
    \/ GenerateReport(ExpertIdRange, {"monthly"})

Spec == Init /\ [][NextAll]_vars

\* A step of the handler `op`: every handler records itself in `last` and
\* leaves the clock alone; Tick does the opposite.
IsStep(op) == now' = now /\ last'.op = op

UniqueEmails ==
    \A i, j \in 1..Len(users) : i # j => users[i].email # users[j].email

UniqueSubdomains ==
    \A i, j \in 1..Len(experts) :
        i # j => experts[i].subdomain = Null
                 \/ experts[i].subdomain # experts[j].subdomain

DuplicateRejected ==
    LET raw == last'.input.raw
    IN  /\ ( /\ IsStep("CreateUser")
             /\ UserCreateValid(raw)
             /\ \E i \in 1..Len(users) : users[i].email = raw.email )
           => (result' = "UniquenessConflict" /\ UNCHANGED tables)
        /\ ( /\ IsStep("CreateExpert")
             /\ ExpertCreateValid(raw)
             /\ "subdomain" \in DOMAIN raw
             /\ raw.subdomain # Null
             /\ \E i \in 1..Len(experts) : experts[i].subdomain = raw.subdomain )
           => (result' = "UniquenessConflict" /\ UNCHANGED tables)

\* C1: a (valid) UserCreate whose email an existing User holds, or a (valid)
\* ExpertCreate whose non-null subdomain an existing Expert holds, ends in
\* UniquenessConflict with every table unchanged; so no two Users share an
\* email and no two Experts share a non-null subdomain, in any state.
C1_Uniqueness == [](UniqueEmails /\ UniqueSubdomains) /\ [][DuplicateRejected]_vars

\* An ExpertCreate was refused for a subdomain a stored Expert holds, with
\* two Users stored under different emails.
C1_Witness ==
    /\ result = "UniquenessConflict"
    /\ last.op = "CreateExpert"
    /\ \E i \in 1..Len(experts) :
          /\ experts[i].subdomain # Null
          /\ experts[i].subdomain = last.input.raw.subdomain
    /\ Len(users) = 2

EmailsMatch == \A i \in 1..Len(users) : EmailRegexMatch(users[i].email)

UserCreateEmailChecked ==
    LET raw == last'.input.raw
    IN  IsStep("CreateUser") =>
          /\ ("email" \in DOMAIN raw /\ ~EmailRegexMatch(raw.email))
                => (result' = "ValidationError" /\ UNCHANGED tables)
          /\ (UserCreateValid(raw) /\ result' = "ok")
                => /\ Len(users') = Len(users) + 1
                   /\ users'[Len(users')].email = raw.email
                   /\ EmailRegexMatch(users'[Len(users')].email)

\* C4: a UserCreate whose email does not match the pattern ends in
\* ValidationError with every table unchanged; one that passes validation
\* and is stored leaves a User whose email is the payload's and matches the
\* pattern; so every stored User's email matches it, in any state.
C4_EmailPattern == []EmailsMatch /\ [][UserCreateEmailChecked]_vars

\* A UserCreate that is fine but for its email was refused, with a User
\* already stored.
C4_Witness ==
    /\ result = "ValidationError"
    /\ last.op = "CreateUser"
    /\ "email" \in DOMAIN last.input.raw
    /\ ~EmailRegexMatch(last.input.raw.email)
    /\ Len(last.input.raw.password) >= PasswordMinLen
    /\ UserCreateParse(last.input.raw).role \in UserRole
    /\ Len(users) >= 1

\* C5: a User owns at most one Expert business: no two distinct Experts
\* hold the same non-null owner_id, in any state.
C5_OneBusinessPerOwner ==
    \A i, j \in 1..Len(experts) :
        i # j => experts[i].owner_id = Null
                 \/ experts[i].owner_id # experts[j].owner_id

NoDanglingCreator ==
    \A i \in 1..Len(experts) : experts[i].created_by_id \in Ids(users)

IsDeactivation ==
    /\ IsStep("UpdateUser")
    /\ "is_active" \in DOMAIN last'.input.raw
    /\ last'.input.raw.is_active = Some(FALSE)

RestrictOrCascade ==
    LET id == last'.input.id
    IN  ( /\ IsStep("DeleteUser") \/ IsDeactivation
          /\ \E i \in 1..Len(experts) : experts[i].created_by_id = id )
        => \/ UNCHANGED <<users, experts>>
           \/ \A i \in 1..Len(experts') : experts'[i].created_by_id # id

\* C7: deleting or deactivating a User that some Expert names as its
\* created_by either leaves the User and the Experts as they were
\* (restrict) or leaves no Expert naming it (cascade); and no Expert's
\* created_by_id names a User that is not stored, in any state.
C7_DeletePolicy == []NoDanglingCreator /\ [][RestrictOrCascade]_vars

\* C9: every stored Expert has 0 <= revenue_split_percentage <= 100.
C9_SplitInRange ==
    \A i \in 1..Len(experts) :
        /\ 0 <= experts[i].revenue_split_percentage
        /\ experts[i].revenue_split_percentage <= Dec(100, 0)

\* C10: every stored Expert's email matches the pattern ExpertCreate
\* enforces.
C10_ExpertEmailsMatch ==
    \A i \in 1..Len(experts) : EmailRegexMatch(experts[i].email)

ReferencesHold ==
    /\ \A i \in 1..Len(sales) : sales[i].expert_id \in Ids(experts)
    /\ \A i \in 1..Len(costs) :
          /\ costs[i].expert_id \in Ids(experts)
          /\ costs[i].created_by_id \in Ids(users)
    /\ \A i \in 1..Len(reports) : reports[i].expert_id \in Ids(experts)
    /\ \A i \in 1..Len(experts) : experts[i].created_by_id \in Ids(users)

MissingTargetRejected ==
    LET in == last'.input
        refused == result' = "ReferentialIntegrityError" /\ UNCHANGED tables
    IN  /\ ( /\ IsStep("CreateSale")
             /\ SaleCreateValid(in.raw)
             /\ in.raw.expert_id \notin Ids(experts) ) => refused
        /\ ( /\ IsStep("CreateCost")
             /\ OperationalCostCreateValid(in.raw)
             /\ in.raw.expert_id \notin Ids(experts)
                    \/ in.actor \notin Ids(users) ) => refused
        /\ ( /\ IsStep("CreateExpert")
             /\ ExpertCreateValid(in.raw)
             /\ \A i \in 1..Len(experts) :
                    experts[i].subdomain = Null
                    \/ experts[i].subdomain # ExpertCreateParse(in.raw).subdomain
             /\ in.actor \notin Ids(users) ) => refused
        /\ ( /\ IsStep("GenerateReport")
             /\ in.expert_id \notin Ids(experts) ) => refused

\* C2: in every state each Sale, OperationalCost and FinancialReport names
\* a stored Expert, and each OperationalCost and Expert names a stored User
\* as created_by; a create that is acceptable but for a missing foreign-key
\* target ends in ReferentialIntegrityError with every table unchanged.
C2_ReferentialIntegrity == []ReferencesHold /\ [][MissingTargetRejected]_vars

\* An OperationalCostCreate for a stored Expert was refused because its
\* creator is not a stored User, while a Sale of that Expert is stored.
C2_Witness ==
    /\ result = "ReferentialIntegrityError"
    /\ last.op = "CreateCost"
    /\ last.input.actor \notin Ids(users)
    /\ last.input.raw.expert_id \in Ids(experts)
    /\ Len(sales) = 1
    /\ Len(users) = 1

CostFrame == {"category", "description", "cost_date", "is_recurring",
              "recurring_frequency", "external_reference", "notes"}

AmountOnlyPatch ==
    LET in == last'.input
        i == RowIndex(costs, in.id)
    IN  ( /\ IsStep("UpdateCost")
          /\ DOMAIN in.raw = {"amount"} )
        => /\ ( /\ in.id \in Ids(costs)
                /\ in.raw.amount # Null
                /\ DecimalOK(Unwrap(in.raw.amount), AmountMaxDigits,
                             AmountDecimalPlaces) )
              => result' = "ok"
           /\ result' = "ok"
              => /\ Len(costs') = Len(costs)
                 /\ costs'[i].amount = Unwrap(in.raw.amount)
                 /\ \A f \in CostFrame : costs'[i][f] = costs[i][f]
                 /\ \A j \in 1..Len(costs) : j # i => costs'[j] = costs[j]
                 /\ UNCHANGED <<users, experts, sales, reports>>
                 \* the same patch applied again, with nothing in between
                 /\ (last = last' /\ result = "ok")
                    => \A f \in CostFrame \cup {"amount"} :
                           costs'[i][f] = costs[i][f]

\* C3: an OperationalCostUpdate that sets amount alone, applied to a stored
\* OperationalCost, sets its amount to the value supplied and leaves its
\* category, description, cost_date, is_recurring, recurring_frequency,
\* external_reference and notes as they were; applied again, it leaves all
\* eight as they are.
C3_AmountOnlyPatch == [][AmountOnlyPatch]_vars

\* An amount-only patch was applied to a cost that holds a note, a
\* frequency and a reference: it holds the new amount and still holds them.
C3_Witness ==
    /\ result = "ok"
    /\ last.op = "UpdateCost"
    /\ DOMAIN last.input.raw = {"amount"}
    /\ last.input.id \in Ids(costs)
    /\ LET row == RowOf(costs, last.input.id)
       IN  /\ row.amount = Dec(250, 0)
           /\ row.notes = Some("renews")
           /\ row.recurring_frequency = Some("monthly")
           /\ row.is_recurring
           /\ row.updated_at > row.created_at

ReportIdentities ==
    \A i \in 1..Len(reports) :
        /\ reports[i].net_profit = reports[i].gross_revenue - reports[i].total_costs
        /\ reports[i].og_share + reports[i].expert_share = reports[i].net_profit

\* The report just generated, read against the rows it was generated from.
ReportExample ==
    ( /\ last.op = "GenerateReport"
      /\ result = "ok" )
    => LET r == reports[Len(reports)]
           e == RowOf(experts, r.expert_id)
           mine == SelectSeq(sales, LAMBDA x :
                       x.expert_id = e.id /\ x.sale_date <= r.period_end)
           spent == SelectSeq(costs, LAMBDA x :
                       x.expert_id = e.id /\ x.cost_date <= r.period_end)
       IN  ( /\ e.revenue_split_percentage = Dec(70, 0)
             /\ Len(mine) = 1 /\ mine[1].net_amount = Dec(900, 0)
             /\ Len(spent) = 1 /\ spent[1].amount = Dec(100, 0) )
           => /\ r.gross_revenue = Dec(900, 0)
              /\ r.total_costs = Dec(100, 0)
              /\ r.net_profit = Dec(800, 0)
              /\ r.expert_share = Dec(560, 0)
              /\ r.og_share = Dec(240, 0)

PayloadOps == {"CreateUser", "UpdateUser", "CreateExpert", "UpdateExpert",
               "CreateSale", "CreateCost", "UpdateCost"}

\* Stored rows keep their id and created_at; a row added takes the next id
\* and the clock's time.
Kept(old, new, id) ==
    /\ Len(new) >= Len(old)
    /\ \A i \in 1..Len(old) :
          /\ new[i].id = old[i].id
          /\ new[i].created_at = old[i].created_at
    /\ \A i \in (Len(old) + 1)..Len(new) :
          /\ new[i].id = id
          /\ new[i].created_at = now

Stamped(old, new) ==
    \A i \in 1..Len(new) :
        (i > Len(old) \/ new[i] # old[i]) => new[i].updated_at = now

ServerManagedKept ==
    (now' = now /\ last'.op \in PayloadOps)
    => /\ Kept(users, users', nextId.users)
       /\ Kept(experts, experts', nextId.experts)
       /\ Kept(sales, sales', nextId.sales)
       /\ Kept(costs, costs', nextId.costs)
       /\ Stamped(users, users')
       /\ Stamped(experts, experts')
       /\ Stamped(costs, costs')
       /\ reports' = reports

\* C8: applying a *Create or *Update payload, whatever id, created_at,
\* updated_at, og_share or expert_share it carries, leaves the id and
\* created_at of every stored row as they were, gives a new row the next id
\* and the server's time, stamps updated_at with the server's time, and
\* writes no FinancialReport.
C8_ServerManagedKept == [][ServerManagedKept]_vars

\* A patch carrying id, created_at, updated_at and the shares was applied
\* to a cost; the cost keeps its id and times, and the stored report its
\* shares.
C8_Witness ==
    /\ result = "ok"
    /\ last.op = "UpdateCost"
    /\ DOMAIN ManagedPatch \subseteq DOMAIN last.input.raw
    /\ LET row == RowOf(costs, last.input.id)
       IN  /\ row.id # Unwrap(last.input.raw.id)
           /\ row.created_at # Unwrap(last.input.raw.created_at)
           /\ row.updated_at # Unwrap(last.input.raw.updated_at)
           /\ row.amount = Unwrap(last.input.raw.amount)
    /\ Len(reports) = 1
    /\ reports[1].og_share # Unwrap(last.input.raw.og_share)

====
